---------------------------- MODULE Spec2Model ----------------------------
(***************************************************************************)
(* A model of finance_chatbot.py: the profile store of                     *)
(* PersonalFinanceChatbot, its four entry points (create_user_profile,     *)
(* update_user_expenses, process_query, get_user_profile_summary) and the  *)
(* analyzers and response generators the query handlers call.              *)
(*                                                                         *)
(* Representation.                                                         *)
(*  - An Optional value is a sequence: <<>> is None, <<v>> is the value v. *)
(*  - A Python dict is the sequence of its items [k, v] in insertion       *)
(*    order (dicts keep insertion order, and the stable sort of            *)
(*    generate_spending_insights depends on it).                           *)
(*  - Dicts are objects: a profile holds a reference into `heap`, because  *)
(*    UserProfile stores the dict it is given and update() mutates it in   *)
(*    place.                                                               *)
(*  - Incomes and expense amounts are whole dollars.  Computed amounts are *)
(*    exact and carried in thousandths of a dollar ("milli"); a ratio such *)
(*    as a savings rate is the exact fraction [num, den].  The decimal     *)
(*    factors of the source (0.8, 0.7, 0.12, ...) are applied as exact     *)
(*    fractions, so binary floating-point rounding is not modelled.        *)
(*  - A composed message is a record of the parts the source puts in the   *)
(*    text; the text itself is not spelled out.  The regular-expression    *)
(*    rewrite of adapt_tone is recorded as the `tone` of the message.      *)
(*  - A call ends as [out |-> "return", value |-> v] or as                 *)
(*    [out |-> "raise", value |-> [kind |-> "exception", type |-> T]].     *)
(***************************************************************************)
EXTENDS Integers, Sequences, FiniteSets, TLC

VARIABLES
    user_profiles,   \* self.user_profiles: user_id -> UserProfile
    heap,            \* the dict objects the profiles' `expenses` refer to
    everCreated,     \* history: the user_ids create_user_profile was called with
    last,            \* the last call: its arguments and how it ended
    input            \* the argument drawn for an analyzer called on its own

vars == <<user_profiles, heap, everCreated, last, input>>

-----------------------------------------------------------------------------
(* Optionals, numbers *)

None == <<>>

Some(v) == <<v>>

\* Python truthiness of an Optional[float]: None and 0 are both falsy.
Truthy(opt) == opt # None /\ opt[1] # 0

Min(a, b) == IF a <= b THEN a ELSE b

Max(a, b) == IF a >= b THEN a ELSE b

\* whole dollars -> thousandths of a dollar
Milli(x) == x * 1000

\* m * (tenths / 10), for the one-digit decimal factors of the source
MulTenths(m, tenths) == (m * tenths) \div 10

-----------------------------------------------------------------------------
(* Python dicts as item sequences *)

EmptyDict == <<>>

DictKeys(d) == {d[i].k : i \in 1..Len(d)}

DictHas(d, key) == key \in DictKeys(d)

\* d.get(key, default)
DictGet(d, key, default) ==
    IF DictHas(d, key)
    THEN d[CHOOSE i \in 1..Len(d) : d[i].k = key].v
    ELSE default

\* d[key] = value: an existing key keeps its place, a new key goes last
DictSet(d, key, value) ==
    IF DictHas(d, key)
    THEN LET i == CHOOSE j \in 1..Len(d) : d[j].k = key
         IN  SubSeq(d, 1, i - 1) \o <<[k |-> key, v |-> value]>>
                 \o SubSeq(d, i + 1, Len(d))
    ELSE Append(d, [k |-> key, v |-> value])

\* d.update(m)
RECURSIVE DictUpdate(_, _)
DictUpdate(d, m) ==
    IF m = <<>> THEN d
    ELSE DictUpdate(DictSet(d, Head(m).k, Head(m).v), Tail(m))

\* sum(d.values())
RECURSIVE DictSum(_)
DictSum(d) == IF d = <<>> THEN 0 ELSE Head(d).v + DictSum(Tail(d))

\* sum(d.get(cat, 0) for cat in cats)
RECURSIVE SumOver(_, _)
SumOver(d, cats) ==
    IF cats = <<>> THEN 0
    ELSE DictGet(d, Head(cats), 0) + SumOver(d, Tail(cats))

\* sorted(d.items(), key=lambda x: x[1], reverse=True)[0]: the sort is stable,
\* so among the largest values the item inserted first comes first
TopItem(d) ==
    LET top == CHOOSE i \in 1..Len(d) :
                   /\ \A j \in 1..Len(d) : d[j].v <= d[i].v
                   /\ \A j \in 1..(i - 1) : d[j].v < d[i].v
    IN  d[top]

-----------------------------------------------------------------------------
(* str.lower() and the `in` test on strings *)

UpperToLower ==
    [A |-> "a", B |-> "b", C |-> "c", D |-> "d", E |-> "e", F |-> "f", G |-> "g",
     H |-> "h", I |-> "i", J |-> "j", K |-> "k", L |-> "l", M |-> "m", N |-> "n",
     O |-> "o", P |-> "p", Q |-> "q", R |-> "r", S |-> "s", T |-> "t", U |-> "u",
     V |-> "v", W |-> "w", X |-> "x", Y |-> "y", Z |-> "z"]

LowerChar(c) == IF c \in DOMAIN UpperToLower THEN UpperToLower[c] ELSE c

RECURSIVE Lower(_)
Lower(s) ==
    IF Len(s) = 0 THEN ""
    ELSE LowerChar(SubSeq(s, 1, 1)) \o Lower(SubSeq(s, 2, Len(s)))

\* word in s
Contains(s, word) ==
    \E i \in 1..(Len(s) - Len(word) + 1) : SubSeq(s, i, i + Len(word) - 1) = word

\* any(word in s for word in words)
AnyIn(s, words) == \E i \in 1..Len(words) : Contains(s, words[i])

-----------------------------------------------------------------------------
(* FinancialAnalyzer *)

\* self.tax_brackets_2024['single']: (lower, upper, rate); a rate is kept in
\* percent, and the upper bound float('inf') of the last bracket is None
tax_brackets_2024 ==
    << [lower |-> 0,      upper |-> Some(11000),  rate |-> 10],
       [lower |-> 11000,  upper |-> Some(44725),  rate |-> 12],
       [lower |-> 44725,  upper |-> Some(95375),  rate |-> 22],
       [lower |-> 95375,  upper |-> Some(182050), rate |-> 24],
       [lower |-> 182050, upper |-> Some(231250), rate |-> 32],
       [lower |-> 231250, upper |-> Some(578125), rate |-> 35],
       [lower |-> 578125, upper |-> None,         rate |-> 37] >>

\* min(income, upper) - lower
TaxableInBracket(income, b) ==
    (IF b.upper = None THEN income ELSE Min(income, b.upper[1])) - b.lower

\* the bracket's tax truncated to whole dollars (int(taxable * rate))
TaxInBracketWholeDollars(taxable, b) == Milli((taxable * b.rate) \div 100)

\* taxable_in_bracket * rate, in thousandths of a dollar
TaxInBracket(taxable, b) == taxable * b.rate * 10

\* The bracket loop from bracket i on: acc is [total_tax, breakdown].
RECURSIVE TaxLoop(_, _, _)
TaxLoop(income, i, acc) ==
    IF i > Len(tax_brackets_2024) THEN acc
    ELSE LET b == tax_brackets_2024[i] IN
         IF income <= b.lower THEN acc
         ELSE LET taxable == TaxableInBracket(income, b)
                  tax     == TaxInBracket(taxable, b)
              IN  TaxLoop(income, i + 1,
                      [total_tax |-> acc.total_tax + tax,
                       breakdown |->
                           IF taxable > 0
                           THEN Append(acc.breakdown,
                                    [bracket        |-> b.rate,
                                     lower          |-> b.lower,
                                     upper          |-> b.upper,
                                     taxable_amount |-> taxable,
                                     tax_amount     |-> tax])
                           ELSE acc.breakdown])

\* (total_tax / income) * 100 if income > 0 else 0, as an exact fraction
\* (total_tax is in thousandths, so the percentage is total_tax / (income * 10))
EffectiveRate(total_tax, income) ==
    IF income > 0 THEN [num |-> total_tax, den |-> income * 10]
    ELSE [num |-> 0, den |-> 1]

\* income - total_tax, in thousandths
AfterTaxIncome(income, total_tax) == Milli(income) - total_tax

calculate_tax_estimate(income) ==
    LET loop == TaxLoop(income, 1, [total_tax |-> 0, breakdown |-> <<>>])
    IN  [total_tax        |-> loop.total_tax,
         effective_rate   |-> EffectiveRate(loop.total_tax, income),
         after_tax_income |-> AfterTaxIncome(income, loop.total_tax),
         breakdown        |-> loop.breakdown]

needs_categories ==
    <<"rent", "utilities", "groceries", "transportation", "insurance",
      "minimum_debt_payments">>

wants_categories ==
    <<"dining_out", "entertainment", "shopping", "hobbies", "subscriptions">>

\* savings_rate >= pct, for the fraction savings_rate (den > 0)
RateAtLeast(rate, pct) == rate.num >= pct * rate.den

_assess_budget_health(savings_rate, needs, wants, income) ==
    IF RateAtLeast(savings_rate, 20) THEN "excellent"
    ELSE IF RateAtLeast(savings_rate, 10) THEN "good"
    ELSE IF RateAtLeast(savings_rate, 5) THEN "fair"
    ELSE "needs_improvement"

\* needs_total taken over every category of the mapping
NeedsTotalOfAll(expenses) == DictSum(expenses)

\* needs_total = sum(expenses.get(cat, 0) for cat in needs_categories)
NeedsTotal(expenses) == SumOver(expenses, needs_categories)

\* wants_total = sum(expenses.get(cat, 0) for cat in wants_categories)
WantsTotal(expenses) == SumOver(expenses, wants_categories)

\* amounts stay in whole dollars here; `recommended` is in thousandths
analyze_budget(income, expenses) ==
    LET total_expenses == DictSum(expenses)
        savings        == income - total_expenses
        savings_rate   == IF income > 0
                          THEN [num |-> savings * 100, den |-> income]
                          ELSE [num |-> 0, den |-> 1]
        needs_total    == NeedsTotal(expenses)
        wants_total    == WantsTotal(expenses)
    IN  [total_income   |-> income,
         total_expenses |-> total_expenses,
         savings        |-> savings,
         savings_rate   |-> savings_rate,
         needs_spending |-> needs_total,
         wants_spending |-> wants_total,
         recommended    |-> [needs   |-> MulTenths(Milli(income), 5),
                             wants   |-> MulTenths(Milli(income), 3),
                             savings |-> MulTenths(Milli(income), 2)],
         budget_health  |-> _assess_budget_health(savings_rate, needs_total,
                                                  wants_total, income)]

\* the branch table with a plain else after the 'high' test: every risk
\* tolerance that is not 'high' gets the 'low' suggestions
generate_investment_suggestions_else_low(user_profile, available_funds) ==
    IF user_profile.user_type = "student"
    THEN << [type |-> "High-Yield Savings Account",
             allocation |-> Min(available_funds, Milli(5000)),
             risk_level |-> "Very Low"],
            [type |-> "Index Fund (S&P 500)",
             allocation |-> MulTenths(available_funds, 7),
             risk_level |-> "Moderate"] >>
    ELSE IF user_profile.risk_tolerance = "high"
    THEN << [type |-> "Growth Stock Index",
             allocation |-> MulTenths(available_funds, 7),
             risk_level |-> "High"],
            [type |-> "International Fund",
             allocation |-> MulTenths(available_funds, 3),
             risk_level |-> "Moderate-High"] >>
    ELSE << [type |-> "Bond Index Fund",
             allocation |-> MulTenths(available_funds, 4),
             risk_level |-> "Low"],
            [type |-> "Dividend Growth Fund",
             allocation |-> MulTenths(available_funds, 6),
             risk_level |-> "Moderate"] >>

\* available_funds and the allocations are in thousandths of a dollar
generate_investment_suggestions(user_profile, available_funds) ==
    IF user_profile.user_type = "student"
    THEN << [type |-> "High-Yield Savings Account",
             allocation |-> Min(available_funds, Milli(5000)),
             risk_level |-> "Very Low"],
            [type |-> "Index Fund (S&P 500)",
             allocation |-> MulTenths(available_funds, 7),
             risk_level |-> "Moderate"] >>
    ELSE IF user_profile.risk_tolerance = "low"
    THEN << [type |-> "Bond Index Fund",
             allocation |-> MulTenths(available_funds, 4),
             risk_level |-> "Low"],
            [type |-> "Dividend Growth Fund",
             allocation |-> MulTenths(available_funds, 6),
             risk_level |-> "Moderate"] >>
    ELSE IF user_profile.risk_tolerance = "high"
    THEN << [type |-> "Growth Stock Index",
             allocation |-> MulTenths(available_funds, 7),
             risk_level |-> "High"],
            [type |-> "International Fund",
             allocation |-> MulTenths(available_funds, 3),
             risk_level |-> "Moderate-High"] >>
    ELSE <<>>

-----------------------------------------------------------------------------
(* How a call ends *)

Return(v) == [out |-> "return", value |-> v]

Raise(type) == [out |-> "raise", value |-> [kind |-> "exception", type |-> type]]

\* a fixed message, as composed (before any adapt_tone)
Text(t) == [kind |-> "text", text |-> t, tone |-> "as_composed"]

-----------------------------------------------------------------------------
(* ResponseGenerator *)

tone_styles ==
    [student      |-> [greeting |-> "Hey there!"],
     professional |-> [greeting |-> "Good day,"]]

\* For 'student' the message is rewritten (two phrase replacements and the
\* $<digits> annotation); for every other user_type it is returned as it is.
adapt_tone(message, user_type) ==
    IF user_type = "student"
    THEN [message EXCEPT !.tone = "student_rewrite"]
    ELSE message

\* self.tone_styles[user_type] is a plain subscript: KeyError for a user_type
\* that is no key of tone_styles
generate_budget_summary(analysis, user_profile) ==
    LET user_type == user_profile.user_type IN
    IF user_type \notin DOMAIN tone_styles THEN Raise("KeyError")
    ELSE Return(adapt_tone(
             [kind     |-> "budget_summary",
              greeting |-> tone_styles[user_type].greeting,
              analysis |-> analysis,
              closing  |-> IF analysis.budget_health = "excellent"
                           THEN "Outstanding work!"
                           ELSE IF analysis.budget_health = "needs_improvement"
                           THEN "Let's work on boosting that savings rate."
                           ELSE "",
              tone     |-> "as_composed"],
             user_type))

\* The insights before adapt_tone, for a mapping whose total is not 0 or
\* which is empty.  percentage is the fraction highest_amount * 100 / total.
InsightLines(expenses, user_profile) ==
    LET total_expenses == DictSum(expenses)
        highest        == TopItem(expenses)
        percentage     == [num |-> highest.v * 100, den |-> total_expenses]
        first ==
            IF Len(expenses) > 0
            THEN <<[kind |-> "highest_expense", category |-> highest.k,
                    amount |-> highest.v, percentage |-> percentage,
                    tone |-> "as_composed"]>>
                 \o (IF highest.k \in {"dining_out", "entertainment"}
                     THEN IF user_profile.user_type = "student"
                          THEN <<Text("Try cooking more meals at home")>>
                          ELSE <<Text("Consider meal prepping")>>
                     ELSE IF highest.k = "rent" /\ percentage.num > 30 * percentage.den
                          THEN <<Text("Housing costs exceed the recommended 30%")>>
                          ELSE <<>>)
            ELSE <<>>
        subs ==
            IF DictHas(expenses, "subscriptions") /\ DictGet(expenses, "subscriptions", 0) > 50
            THEN <<Text("Review subscriptions")>>
            ELSE <<>>
    IN  first \o subs

\* [self.adapt_tone(insight, user_type) for insight in insights]
RECURSIVE AdaptEach(_, _)
AdaptEach(insights, user_type) ==
    IF insights = <<>> THEN <<>>
    ELSE <<adapt_tone(Head(insights), user_type)>> \o AdaptEach(Tail(insights), user_type)

\* percentage = (highest_amount / total_expenses) * 100 divides by the total:
\* ZeroDivisionError for a non-empty mapping whose amounts sum to 0
generate_spending_insights(expenses, user_profile) ==
    IF Len(expenses) > 0 /\ DictSum(expenses) = 0 THEN Raise("ZeroDivisionError")
    ELSE Return(AdaptEach(InsightLines(expenses, user_profile),
                          user_profile.user_type))

-----------------------------------------------------------------------------
(* PersonalFinanceChatbot: the intent handlers.  A handler gets the profile *)
(* with its expenses dict read from the heap, and ends as Return or Raise;  *)
(* `calls` lists the analyzer methods it invoked.                           *)

NeedIncomeForTaxes ==
    Text("I need your income information to calculate taxes. Please update your profile with your annual income.")

NeedIncomeAndExpenses ==
    Text("I need your income and expense information to analyze your budget. Please update your profile.")

NeedIncomeForInvesting ==
    Text("I need your income information to provide investment advice. Please update your profile.")

NoProfileFound == Text("No profile found.")

Handled(outcome, calls) ==
    [out |-> outcome.out, value |-> outcome.value, calls |-> calls]

_handle_tax_query(user_profile, query) ==
    IF ~Truthy(user_profile.income)
    THEN Handled(Return(NeedIncomeForTaxes), <<>>)
    ELSE LET income       == user_profile.income[1]
             tax_analysis == calculate_tax_estimate(income)
             response     == [kind     |-> "tax_estimate",
                              income   |-> income,
                              analysis |-> tax_analysis,
                              tips     |-> IF user_profile.user_type = "student"
                                           THEN "student" ELSE "professional",
                              tone     |-> "as_composed"]
         IN  Handled(Return(adapt_tone(response, user_profile.user_type)),
                     <<"calculate_tax_estimate">>)

_handle_budget_query(user_profile, query) ==
    IF ~Truthy(user_profile.income) \/ Len(user_profile.expenses) = 0
    THEN Handled(Return(NeedIncomeAndExpenses), <<>>)
    ELSE LET budget_analysis   == analyze_budget(user_profile.income[1], user_profile.expenses)
             budget_summary    == generate_budget_summary(budget_analysis, user_profile)
             spending_insights == generate_spending_insights(user_profile.expenses, user_profile)
         IN  IF budget_summary.out = "raise"
             THEN Handled(budget_summary, <<"analyze_budget">>)
             ELSE IF spending_insights.out = "raise"
             THEN Handled(spending_insights, <<"analyze_budget">>)
             ELSE Handled(Return([kind     |-> "budget",
                                  summary  |-> budget_summary.value,
                                  insights |-> SubSeq(spending_insights.value, 1,
                                                      Min(3, Len(spending_insights.value))),
                                  tone     |-> budget_summary.value.tone]),
                          <<"analyze_budget">>)

_handle_investment_query(user_profile, query) ==
    IF ~Truthy(user_profile.income)
    THEN Handled(Return(NeedIncomeForInvesting), <<>>)
    ELSE LET income          == user_profile.income[1]
             total_expenses  == IF Len(user_profile.expenses) > 0
                                THEN Milli(DictSum(user_profile.expenses))
                                ELSE MulTenths(Milli(income), 8)
             available_funds == Max(0, MulTenths(Milli(income) - total_expenses, 8))
         IN  IF available_funds < Milli(100)
             THEN Handled(Return(adapt_tone(
                      Text("Focus on building an emergency fund first before investing. Aim to save at least $1,000 for emergencies."),
                      user_profile.user_type)), <<>>)
             ELSE Handled(Return(adapt_tone(
                      [kind            |-> "investment",
                       available_funds |-> available_funds,
                       suggestions     |-> generate_investment_suggestions(
                                               user_profile, available_funds),
                       tone            |-> "as_composed"],
                      user_profile.user_type)),
                      <<"generate_investment_suggestions">>)

\* the savings handler with the field validation of the other handlers in
\* front: no income and no expenses is answered with a guidance message
_handle_savings_query_validating(user_profile, query) ==
    IF Len(user_profile.expenses) = 0 /\ ~Truthy(user_profile.income)
    THEN Handled(Return(NeedIncomeAndExpenses), <<>>)
    ELSE LET emergency_fund_target ==
                 6 * (IF Len(user_profile.expenses) > 0
                      THEN Milli(DictSum(user_profile.expenses))
                      ELSE MulTenths(Milli(user_profile.income[1]), 7))
         IN  Handled(Return(adapt_tone(
                      [kind                  |-> "savings",
                       emergency_fund_target |-> emergency_fund_target,
                       tips                  |-> IF user_profile.user_type = "student"
                                                 THEN "student" ELSE "professional",
                       tone                  |-> "as_composed"],
                      user_profile.user_type)), <<>>)

\* user_profile.income * 0.7 with income None is a TypeError
_handle_savings_query(user_profile, query) ==
    IF Len(user_profile.expenses) = 0 /\ user_profile.income = None
    THEN Handled(Raise("TypeError"), <<>>)
    ELSE LET emergency_fund_target ==
                 6 * (IF Len(user_profile.expenses) > 0
                      THEN Milli(DictSum(user_profile.expenses))
                      ELSE MulTenths(Milli(user_profile.income[1]), 7))
         IN  Handled(Return(adapt_tone(
                      [kind                  |-> "savings",
                       emergency_fund_target |-> emergency_fund_target,
                       tips                  |-> IF user_profile.user_type = "student"
                                                 THEN "student" ELSE "professional",
                       tone                  |-> "as_composed"],
                      user_profile.user_type)), <<>>)

general_advice ==
    [student      |-> "General Financial Tips for Students",
     professional |-> "General Financial Tips for Professionals"]

\* general_advice.get(user_type, general_advice['professional'])
_handle_general_query(user_profile, query) ==
    LET response == IF user_profile.user_type \in DOMAIN general_advice
                    THEN general_advice[user_profile.user_type]
                    ELSE general_advice["professional"]
    IN  Handled(Return(adapt_tone(
                 [kind |-> "general", advice |-> response, tone |-> "as_composed"],
                 user_profile.user_type)), <<>>)

-----------------------------------------------------------------------------
(* PersonalFinanceChatbot: the entry points as functions of the store *)

\* the UserProfile object user_id names, with its expenses dict read from h
ProfileOf(profiles, h, user_id) ==
    [profiles[user_id] EXCEPT !.expenses = h[profiles[user_id].expenses]]

tax_words == <<"tax", "taxes", "federal">>

budget_words == <<"budget", "spending", "expenses">>

investment_words == <<"invest", "investment", "portfolio">>

savings_words == <<"save", "savings", "emergency fund">>

\* the chain with its first two branches in the other order
ClassifyBudgetFirst(query_lower) ==
    IF AnyIn(query_lower, budget_words) THEN "budget"
    ELSE IF AnyIn(query_lower, tax_words) THEN "tax"
    ELSE IF AnyIn(query_lower, investment_words) THEN "investment"
    ELSE IF AnyIn(query_lower, savings_words) THEN "savings"
    ELSE "general"

\* the if/elif chain of process_query over query_lower
Classify(query_lower) ==
    IF AnyIn(query_lower, tax_words) THEN "tax"
    ELSE IF AnyIn(query_lower, budget_words) THEN "budget"
    ELSE IF AnyIn(query_lower, investment_words) THEN "investment"
    ELSE IF AnyIn(query_lower, savings_words) THEN "savings"
    ELSE "general"

Dispatch(intent, user_profile, query) ==
    CASE intent = "tax"        -> _handle_tax_query(user_profile, query)
      [] intent = "budget"     -> _handle_budget_query(user_profile, query)
      [] intent = "investment" -> _handle_investment_query(user_profile, query)
      [] intent = "savings"    -> _handle_savings_query(user_profile, query)
      [] OTHER                 -> _handle_general_query(user_profile, query)

ApologyMessage ==
    Text("I'm sorry, I encountered an error processing your request. Please try again.")

CreateProfileFirstMessage ==
    Text("Please create your profile first using create_profile().")

\* process_query without its try/except: the handler's exception goes on to
\* the caller
TryExceptMissing(handled) == [out |-> handled.out, value |-> handled.value]

\* try: return <handler> / except Exception: return the apology
TryExcept(handled) ==
    IF handled.out = "raise" THEN Return(ApologyMessage)
    ELSE Return(handled.value)

\* What the call returns, with what happened inside it: the intent chosen,
\* how the handler ended ("none" when no handler ran), the exception
\* logger.error reported and the analyzers called.
process_query(profiles, h, user_id, query) ==
    IF user_id \notin DOMAIN profiles
    THEN [out     |-> "return",
          value   |-> CreateProfileFirstMessage,
          intent  |-> "none", handler |-> "none", logged |-> "none",
          calls   |-> <<>>]
    ELSE LET user_profile == ProfileOf(profiles, h, user_id)
             query_lower  == Lower(query)
             intent       == Classify(query_lower)
             handled      == Dispatch(intent, user_profile, query)
             result       == TryExcept(handled)
         IN  [out     |-> result.out,
              value   |-> result.value,
              intent  |-> intent, handler |-> handled.out,
              logged  |-> IF handled.out = "raise" THEN handled.value.type ELSE "none",
              calls   |-> handled.calls]

\* The f-string formats profile.income with ',.2f' whatever follows in the
\* text: format(None, ',.2f') is a TypeError.
get_user_profile_summary(profiles, h, user_id) ==
    IF user_id \notin DOMAIN profiles THEN Return(NoProfileFound)
    ELSE LET profile == ProfileOf(profiles, h, user_id) IN
         IF profile.income = None THEN Raise("TypeError")
         ELSE Return([kind             |-> "profile_summary",
                      user_type        |-> profile.user_type,
                      age              |-> profile.age,
                      income           |-> profile.income[1],
                      risk_tolerance   |-> profile.risk_tolerance,
                      monthly_expenses |-> IF Len(profile.expenses) > 0
                                           THEN Some(DictSum(profile.expenses))
                                           ELSE None,
                      tone             |-> "as_composed"])

-----------------------------------------------------------------------------
(* The store *)

UserIds == {"u1", "u2"}

\* one dict object per stored profile is enough: an object no stored profile
\* refers to cannot be told from a new one with the same items
DictRefs == {"d1", "d2"}

\* the dict objects the profiles other than user_id refer to
RefsOfOthers(profiles, user_id) ==
    {profiles[u].expenses : u \in DOMAIN profiles \ {user_id}}

\* The expenses argument of create_user_profile:
\*   [given |-> "none"]                 expenses not passed (None)
\*   [given |-> "new", items |-> d]     a dict object not yet in any profile
\*   [given |-> "object", ref |-> r]    the dict object a stored profile holds
ExpensesArgs(h, dicts) ==
    {[given |-> "none"]}
        \cup {[given |-> "new", items |-> d] : d \in dicts}
        \cup {[given |-> "object", ref |-> r] : r \in DOMAIN h}

\* UserProfile(...) with __post_init__, then self.user_profiles[user_id] = profile.
\* The profile keeps the dict object it was given; None becomes a new {}.
CreateProfile(user_id, user_type, age, income, expenses, risk_tolerance) ==
    LET others  == RefsOfOthers(user_profiles, user_id)
        ref     == IF expenses.given = "object" THEN expenses.ref
                   ELSE CHOOSE r \in DictRefs : r \notin others
        items   == IF expenses.given = "object" THEN heap[expenses.ref]
                   ELSE IF expenses.given = "new" THEN expenses.items
                   ELSE EmptyDict
        profile == [user_type       |-> user_type,
                    age             |-> age,
                    income          |-> income,
                    expenses        |-> ref,
                    financial_goals |-> <<>>,
                    risk_tolerance  |-> risk_tolerance]
    IN  /\ user_profiles' = (user_id :> profile) @@ user_profiles
        /\ heap' = [r \in others \cup {ref} |-> IF r = ref THEN items ELSE heap[r]]
        /\ everCreated' = everCreated \cup {user_id}
        /\ last' = [op |-> "create_user_profile", user_id |-> user_id,
                    out |-> "return"]
        /\ UNCHANGED input

\* update_user_expenses without its membership test, on a defaultdict-like
\* store: an unknown user_id gets a profile holding the expenses
UpdateExpensesCreates(user_id, expenses) ==
    LET ref == IF user_id \in DOMAIN user_profiles THEN user_profiles[user_id].expenses
               ELSE CHOOSE r \in DictRefs : r \notin RefsOfOthers(user_profiles, user_id)
        old == IF user_id \in DOMAIN user_profiles THEN heap[ref] ELSE EmptyDict
    IN  /\ heap' = (ref :> DictUpdate(old, expenses)) @@ heap
        /\ user_profiles' =
               IF user_id \in DOMAIN user_profiles THEN user_profiles
               ELSE (user_id :> [user_type |-> "professional", age |-> 20,
                                 income |-> None, expenses |-> ref,
                                 financial_goals |-> <<>>,
                                 risk_tolerance |-> "moderate"]) @@ user_profiles
        /\ last' = [op |-> "update_user_expenses", user_id |-> user_id,
                    expenses |-> expenses, out |-> "return"]
        /\ UNCHANGED <<everCreated, input>>

\* if user_id in self.user_profiles: self.user_profiles[user_id].expenses.update(expenses)
UpdateExpenses(user_id, expenses) ==
    /\ heap' = IF user_id \in DOMAIN user_profiles
               THEN [heap EXCEPT ![user_profiles[user_id].expenses] =
                                     DictUpdate(@, expenses)]
               ELSE heap
    /\ last' = [op |-> "update_user_expenses", user_id |-> user_id,
                expenses |-> expenses, out |-> "return"]
    /\ UNCHANGED <<user_profiles, everCreated, input>>

\* process_query with a handler that fills in a missing income
\* (user_profile.income = user_profile.income or 0) before it answers
ProcessQueryFillsIncome(user_id, query) ==
    /\ last' = [op |-> "process_query", user_id |-> user_id, query |-> query]
                   @@ process_query(user_profiles, heap, user_id, query)
    /\ user_profiles' =
           IF user_id \in DOMAIN user_profiles /\ user_profiles[user_id].income = None
           THEN [user_profiles EXCEPT ![user_id].income = Some(0)]
           ELSE user_profiles
    /\ UNCHANGED <<heap, everCreated, input>>

ProcessQuery(user_id, query) ==
    /\ last' = [op |-> "process_query", user_id |-> user_id, query |-> query]
                   @@ process_query(user_profiles, heap, user_id, query)
    /\ UNCHANGED <<user_profiles, heap, everCreated, input>>

GetProfileSummary(user_id) ==
    /\ last' = [op |-> "get_user_profile_summary", user_id |-> user_id]
                   @@ get_user_profile_summary(user_profiles, heap, user_id)
    /\ UNCHANGED <<user_profiles, heap, everCreated, input>>

-----------------------------------------------------------------------------
(* The callers' inputs *)

UserTypes == {"student", "professional", "retiree"}

Ages == {20}

Incomes == {None, Some(0), Some(2000)}

RiskTolerances == {"low", "moderate", "high", "reckless"}

Categories == {"rent", "textbooks"}

Amounts == {0, 1000}

\* the dicts over the categories cats with amounts from amts, in every
\* insertion order
DictsOver(cats, amts) ==
    {d \in UNION {[1..n -> [k : cats, v : amts]] : n \in 0..Cardinality(cats)} :
        \A i, j \in 1..Len(d) : i # j => d[i].k # d[j].k}

Queries ==
    {"How much will I pay in taxes?", "FEDERAL", "Can you analyze my budget?",
     "Spending and TAX", "portfolio expenses", "What should I invest in?",
     "Save to Invest", "my savings", "Emergency Fund", "emergency  fund",
     "call a taxi", "General financial advice", ""}

-----------------------------------------------------------------------------
(* Spec: the four entry points called in any order on a store of two       *)
(* identifiers.  The fields no store operation reads are drawn from        *)
(* StoreUserTypes and StoreRiskTolerances, and one query per outcome of    *)
(* process_query is asked; SpecQuery below draws them from the full sets.  *)

StoreUserTypes == {"professional"}

StoreRiskTolerances == {"moderate"}

StoreIncomes == {None, Some(2000)}

\* create-profile-first or a handler's answer; the need-more-information
\* answer; the answer or the apology, by the profile
StoreQueries == {"General financial advice", "What should I invest in?", "my savings"}

Init ==
    /\ user_profiles = <<>>
    /\ heap = <<>>
    /\ everCreated = {}
    /\ last = [op |-> "init"]
    /\ input = None

Next ==
    \/ \E user_id \in UserIds, user_type \in StoreUserTypes, age \in Ages,
          income \in StoreIncomes, risk_tolerance \in StoreRiskTolerances,
          expenses \in ExpensesArgs(heap, DictsOver(Categories, Amounts)) :
              CreateProfile(user_id, user_type, age, income, expenses, risk_tolerance)
    \/ \E user_id \in UserIds, expenses \in DictsOver(Categories, Amounts) :
              UpdateExpenses(user_id, expenses)
    \/ \E user_id \in UserIds, query \in StoreQueries : ProcessQuery(user_id, query)
    \/ \E user_id \in UserIds : GetProfileSummary(user_id)

Spec == Init /\ [][Next]_vars

-----------------------------------------------------------------------------
(* SpecQuery: process_query and get_user_profile_summary on every store    *)
(* one create_user_profile call leaves ("u1" stored, "u2" unknown), over   *)
(* the full sets of field values and queries.                              *)

StoredProfile(user_type, age, income, expenses, risk_tolerance) ==
    /\ user_profiles = ("u1" :> [user_type       |-> user_type,
                                 age             |-> age,
                                 income          |-> income,
                                 expenses        |-> "d1",
                                 financial_goals |-> <<>>,
                                 risk_tolerance  |-> risk_tolerance])
    /\ heap = ("d1" :> expenses)
    /\ everCreated = {"u1"}
    /\ last = [op |-> "create_user_profile", user_id |-> "u1", out |-> "return"]
    /\ input = None

InitQuery ==
    \E user_type \in UserTypes, age \in Ages, income \in Incomes,
       risk_tolerance \in RiskTolerances, expenses \in DictsOver(Categories, Amounts) :
           StoredProfile(user_type, age, income, expenses, risk_tolerance)

NextQuery ==
    \/ \E user_id \in UserIds, query \in Queries : ProcessQuery(user_id, query)
    \/ \E user_id \in UserIds : GetProfileSummary(user_id)

SpecQuery == InitQuery /\ [][NextQuery]_vars

-----------------------------------------------------------------------------
(* SpecTax: calculate_tax_estimate on an income drawn from the incomes      *)
(* within MaxOffset dollars of a bracket bound and the incomes of main().   *)

MaxOffset == 8

TaxIncomes ==
    {income \in UNION {(tax_brackets_2024[i].lower - MaxOffset)
                           ..(tax_brackets_2024[i].lower + MaxOffset) :
                       i \in 1..Len(tax_brackets_2024)} : income >= 0}
        \cup {15000, 75000}

NoStore ==
    /\ user_profiles = <<>>
    /\ heap = <<>>
    /\ everCreated = {}
    /\ last = [op |-> "init"]

InitTax == NoStore /\ \E income \in TaxIncomes : input = [income |-> income]

CalculateTaxEstimate ==
    /\ last' = [op |-> "calculate_tax_estimate", income |-> input.income,
                result |-> calculate_tax_estimate(input.income)]
    /\ UNCHANGED <<user_profiles, heap, everCreated, input>>

NextTax == CalculateTaxEstimate

SpecTax == InitTax /\ [][NextTax]_vars

-----------------------------------------------------------------------------
(* SpecBudget: analyze_budget on an income and an expense mapping drawn     *)
(* from the mappings over a needs, a wants and an unlisted category with    *)
(* amounts up to MaxAmount.                                                 *)

MaxAmount == 2

BudgetCategories == {"rent", "dining_out", "textbooks"}

BudgetIncomes == {0, 10}

InitBudget ==
    NoStore /\ \E income \in BudgetIncomes,
                  expenses \in DictsOver(BudgetCategories, 0..MaxAmount) :
                      input = [income |-> income, expenses |-> expenses]

AnalyzeBudget ==
    /\ last' = [op |-> "analyze_budget", income |-> input.income,
                expenses |-> input.expenses,
                result |-> analyze_budget(input.income, input.expenses)]
    /\ UNCHANGED <<user_profiles, heap, everCreated, input>>

NextBudget == AnalyzeBudget

SpecBudget == InitBudget /\ [][NextBudget]_vars

-----------------------------------------------------------------------------
(* SpecInvest: generate_investment_suggestions on a user_type, a risk       *)
(* tolerance and funds drawn from the whole-dollar amounts within MaxOffset *)
(* of 0, of the $100 the investment handler asks for, of the $5,000 cap,    *)
(* and the $2,000 of the student scenario.                                  *)

InvestFunds ==
    {funds \in UNION {(anchor - MaxOffset)..(anchor + MaxOffset) :
                      anchor \in {0, 100, 2000, 5000}} : funds >= 0}

InitInvest ==
    NoStore /\ \E user_type \in UserTypes, risk_tolerance \in RiskTolerances,
                  funds \in InvestFunds :
                      input = [user_type |-> user_type,
                               risk_tolerance |-> risk_tolerance,
                               available_funds |-> Milli(funds)]

GenerateInvestmentSuggestions ==
    /\ last' = [op |-> "generate_investment_suggestions",
                user_type |-> input.user_type,
                risk_tolerance |-> input.risk_tolerance,
                available_funds |-> input.available_funds,
                result |-> generate_investment_suggestions(input, input.available_funds)]
    /\ UNCHANGED <<user_profiles, heap, everCreated, input>>

NextInvest == GenerateInvestmentSuggestions

SpecInvest == InitInvest /\ [][NextInvest]_vars

-----------------------------------------------------------------------------
(* Properties of process_query (SpecQuery) *)

\* the profile the last call was about, as stored
LastProfile == ProfileOf(user_profiles, heap, last.user_id)

QueryAnswered == last.op = "process_query" /\ last.user_id \in DOMAIN user_profiles

\* C1: process_query never raises to its caller: whatever the stored profile
\* and the query, it returns a message, and when the intent handler raised,
\* the message is the generic apology.
C1_ProcessQueryNeverRaises ==
    last.op = "process_query" =>
        /\ last.out = "return"
        /\ last.value.kind # "exception"
        /\ last.handler = "raise" => last.value = ApologyMessage

\* C1 witness: a handler raised (the budget path on expenses that sum to 0)
\* and the caller got the apology.
C1_Witness ==
    /\ QueryAnswered
    /\ last.intent = "budget"
    /\ last.handler = "raise"
    /\ last.out = "return"
    /\ last.value = ApologyMessage

\* the categories in the priority order of the claim, each with its keywords
PriorityOrder == <<"tax", "budget", "investment", "savings">>

KeywordsOf ==
    [tax        |-> {"tax", "taxes", "federal"},
     budget     |-> {"budget", "spending", "expenses"},
     investment |-> {"invest", "investment", "portfolio"},
     savings    |-> {"save", "savings", "emergency fund"}]

Matches(query, category) ==
    \E word \in KeywordsOf[category] : Contains(Lower(query), word)

\* C2: the handler that runs is the one of the first category, in the order
\* tax > budget > investment > savings, that has a keyword contained in the
\* lower-cased query; the general handler runs exactly when no category has.
C2_FirstMatchingCategoryWins ==
    QueryAnswered =>
        /\ \A i \in 1..Len(PriorityOrder) :
               last.intent = PriorityOrder[i] <=>
                   /\ Matches(last.query, PriorityOrder[i])
                   /\ \A j \in 1..(i - 1) : ~Matches(last.query, PriorityOrder[j])
        /\ last.intent = "general" <=>
               \A i \in 1..Len(PriorityOrder) : ~Matches(last.query, PriorityOrder[i])

\* C2 witness: a query with a budget keyword and, in upper case, a tax
\* keyword went to the tax handler.
C2_Witness ==
    /\ QueryAnswered
    /\ last.query = "Spending and TAX"
    /\ Matches(last.query, "budget")
    /\ last.intent = "tax"

\* the handler of the last query called the analyzer method `name`
Invoked(name) == \E i \in 1..Len(last.calls) : last.calls[i] = name

\* C3: on the tax and the investment path the need-more-information message
\* is returned when the income is absent, and the analyzer is invoked whenever
\* an income is present, 0 included; on the budget path the message is
\* returned when the income is absent or the expenses are empty, and the
\* Budget Analyzer is invoked whenever both are there.
C3_NeedInfoExactlyWhenFieldsAbsent ==
    QueryAnswered =>
        /\ last.intent = "tax" =>
               IF LastProfile.income = None
               THEN last.value = NeedIncomeForTaxes /\ last.calls = <<>>
               ELSE Invoked("calculate_tax_estimate")
        /\ last.intent = "investment" =>
               IF LastProfile.income = None
               THEN last.value = NeedIncomeForInvesting /\ last.calls = <<>>
               ELSE Invoked("generate_investment_suggestions")
        /\ last.intent = "budget" =>
               IF LastProfile.income = None \/ Len(LastProfile.expenses) = 0
               THEN last.value = NeedIncomeAndExpenses /\ last.calls = <<>>
               ELSE Invoked("analyze_budget")

\* the fields the claim calls required, present in the claim's sense
RequiredFieldsPresent(intent, profile) ==
    CASE intent \in {"tax", "investment"} -> profile.income # None
      [] intent = "budget"  -> profile.income # None /\ Len(profile.expenses) > 0
      [] intent = "savings" -> profile.income # None \/ Len(profile.expenses) > 0
      [] OTHER -> TRUE

\* what process_query answers when the stored user_type is 'professional'
\* and everything else is as it is
AnswerAsProfessional ==
    process_query([user_profiles EXCEPT ![last.user_id].user_type = "professional"],
                  heap, last.user_id, last.query).value

\* C10: a profile whose user_type is neither 'student' nor 'professional' is
\* answered as a professional is, on every path whose required fields are
\* present, and never with the generic apology.
C10_UnknownSegmentHandledAsProfessional ==
    (/\ QueryAnswered
     /\ LastProfile.user_type \notin {"student", "professional"}
     /\ RequiredFieldsPresent(last.intent, LastProfile)) =>
        /\ last.value # ApologyMessage
        /\ last.value = AnswerAsProfessional

\* C7: get_user_profile_summary returns a string for every identifier: the
\* no-profile-found string for an unknown one, a snapshot for every stored
\* profile, one whose income was never set included.
C7_SummaryAlwaysReturns ==
    last.op = "get_user_profile_summary" =>
        /\ last.out = "return"
        /\ IF last.user_id \in DOMAIN user_profiles
           THEN last.value.kind = "profile_summary"
           ELSE last.value = NoProfileFound

-----------------------------------------------------------------------------
(* Properties of the store (Spec) *)

\* C4: a process_query call, however it ends, leaves the profile store and
\* every field of every stored profile, its expenses dict included, as they
\* were.
C4_QueryNeverMutates ==
    [][last'.op = "process_query" =>
           /\ user_profiles' = user_profiles
           /\ heap' = heap
           /\ \A u \in DOMAIN user_profiles :
                  ProfileOf(user_profiles', heap', u) = ProfileOf(user_profiles, heap, u)]_vars

\* C4 witness: with both identifiers stored, a query whose handler raised was
\* answered with the apology.
C4_Witness ==
    /\ last.op = "process_query"
    /\ DOMAIN user_profiles = UserIds
    /\ last.handler = "raise"
    /\ last.value = ApologyMessage

\* C5: process_query answers with the create-profile-first message exactly
\* for the identifiers create_user_profile was never called with; the known
\* identifiers are exactly those it was called with, so update_user_expenses
\* makes none known and none is ever removed.
C5_KnownIffCreated ==
    /\ DOMAIN user_profiles = everCreated
    /\ last.op = "process_query" =>
           (last.value = CreateProfileFirstMessage <=> last.user_id \notin everCreated)

\* C5 witness: update_user_expenses was called on an identifier that was
\* never created, and the identifier is still unknown.
C5_Witness ==
    /\ last.op = "update_user_expenses"
    /\ last.user_id \notin everCreated
    /\ last.user_id \notin DOMAIN user_profiles
    /\ last.expenses # EmptyDict
    /\ everCreated # {}

\* C6: update_user_expenses(id, m) on a stored profile merges m into its
\* expenses (every key of m has m's value, every other key its old value, no
\* key is removed) and changes nothing else: not the other fields of that
\* profile, not any other identifier's profile; on an unknown identifier it
\* changes nothing.
C6_UpdateMergesAndFrames ==
    [][last'.op = "update_user_expenses" =>
           LET id == last'.user_id
               m  == last'.expenses
           IN  IF id \in DOMAIN user_profiles
               THEN LET old == heap[user_profiles[id].expenses]
                        new == heap'[user_profiles'[id].expenses]
                    IN  /\ DictKeys(new) = DictKeys(old) \cup DictKeys(m)
                        /\ \A key \in DictKeys(m) :
                               DictGet(new, key, -1) = DictGet(m, key, -1)
                        /\ \A key \in DictKeys(old) \ DictKeys(m) :
                               DictGet(new, key, -1) = DictGet(old, key, -1)
                        /\ DOMAIN user_profiles' = DOMAIN user_profiles
                        /\ [ProfileOf(user_profiles', heap', id) EXCEPT !.expenses = old]
                               = ProfileOf(user_profiles, heap, id)
                        /\ \A u \in DOMAIN user_profiles \ {id} :
                               ProfileOf(user_profiles', heap', u)
                                   = ProfileOf(user_profiles, heap, u)
               ELSE user_profiles' = user_profiles /\ heap' = heap]_vars

-----------------------------------------------------------------------------
(* Properties of the analyzers (SpecTax, SpecBudget) *)

\* C8: for every income >= 0, after_tax_income + total_tax is the income,
\* and effective_rate is 0 exactly when the income is 0.
C8_TaxSplitsIncome ==
    last.op = "calculate_tax_estimate" =>
        /\ last.result.after_tax_income + last.result.total_tax = Milli(last.income)
        /\ last.result.effective_rate.num = 0 <=> last.income = 0

\* C8 witness: an income taxed in three brackets.
C8_Witness ==
    /\ last.op = "calculate_tax_estimate"
    /\ last.income = 75000
    /\ Len(last.result.breakdown) = 3
    /\ last.result.total_tax > 0
    /\ last.result.after_tax_income > 0

\* the category is on the needs or on the wants whitelist
Whitelisted(category) ==
    \E i \in 1..Len(needs_categories \o wants_categories) :
        (needs_categories \o wants_categories)[i] = category

\* C9 as stated: needs_total + wants_total <= total_expenses, and the two are
\* equal only when every category of the mapping is on a whitelist.
C9_EqualOnlyWhenAllWhitelisted ==
    last.op = "analyze_budget" =>
        /\ last.result.needs_spending + last.result.wants_spending
               <= last.result.total_expenses
        /\ last.result.needs_spending + last.result.wants_spending
               = last.result.total_expenses
             => \A category \in DictKeys(last.expenses) : Whitelisted(category)

\* C9 as amended: needs_total + wants_total <= total_expenses, and the two are
\* equal only when every category of the mapping with an amount other than 0
\* is on a whitelist.
C9_EqualOnlyWhenUnlistedAreZero ==
    last.op = "analyze_budget" =>
        /\ last.result.needs_spending + last.result.wants_spending
               <= last.result.total_expenses
        /\ last.result.needs_spending + last.result.wants_spending
               = last.result.total_expenses
             => \A category \in DictKeys(last.expenses) :
                    DictGet(last.expenses, category, 0) # 0 => Whitelisted(category)

\* C9 witness: a mapping with a needs, a wants and an unlisted category, all
\* with an amount, whose two aggregates fall short of the total.
C9_Witness ==
    /\ last.op = "analyze_budget"
    /\ last.result.needs_spending > 0
    /\ last.result.wants_spending > 0
    /\ DictGet(last.expenses, "textbooks", 0) > 0
    /\ last.result.needs_spending + last.result.wants_spending
           < last.result.total_expenses

-----------------------------------------------------------------------------
(* Properties of the Investment Recommender (SpecInvest) *)

\* the suggestions are exactly the two instruments named, in this order,
\* with allocations a1 and a2 (thousandths of a dollar)
IsPair(suggestions, type1, a1, type2, a2) ==
    /\ Len(suggestions) = 2
    /\ suggestions[1].type = type1 /\ suggestions[1].allocation = a1
    /\ suggestions[2].type = type2 /\ suggestions[2].allocation = a2

\* a = funds * tenths / 10, exactly
IsShare(a, funds, tenths) == a * 10 = funds * tenths

\* C11: the Investment Recommender is the fixed branch table: a student gets
\* [emergency savings min(funds, 5000), index fund funds * 0.7] whatever the
\* risk tolerance; a professional gets [bond funds * 0.4, dividend funds * 0.6]
\* for 'low', [growth funds * 0.7, international funds * 0.3] for 'high', and
\* the empty list for 'moderate' and every other risk tolerance.
C11_BranchTable ==
    last.op = "generate_investment_suggestions" =>
        LET s     == last.result
            funds == last.available_funds
        IN  /\ last.user_type = "student" =>
                   /\ IsPair(s, "High-Yield Savings Account", s[1].allocation,
                                "Index Fund (S&P 500)", s[2].allocation)
                   /\ s[1].allocation =
                          (IF funds < Milli(5000) THEN funds ELSE Milli(5000))
                   /\ IsShare(s[2].allocation, funds, 7)
            /\ (last.user_type = "professional" /\ last.risk_tolerance = "low") =>
                   /\ IsPair(s, "Bond Index Fund", s[1].allocation,
                                "Dividend Growth Fund", s[2].allocation)
                   /\ IsShare(s[1].allocation, funds, 4)
                   /\ IsShare(s[2].allocation, funds, 6)
            /\ (last.user_type = "professional" /\ last.risk_tolerance = "high") =>
                   /\ IsPair(s, "Growth Stock Index", s[1].allocation,
                                "International Fund", s[2].allocation)
                   /\ IsShare(s[1].allocation, funds, 7)
                   /\ IsShare(s[2].allocation, funds, 3)
            /\ (last.user_type = "professional"
                    /\ last.risk_tolerance \notin {"low", "high"}) => s = <<>>

\* C11 witness: a professional with a risk tolerance that is none of the
\* three named ones, and funds to invest, got the empty list.
C11_Witness ==
    /\ last.op = "generate_investment_suggestions"
    /\ last.user_type = "professional"
    /\ last.risk_tolerance = "reckless"
    /\ last.available_funds = Milli(2000)
    /\ last.result = <<>>

-----------------------------------------------------------------------------
(* Properties of the savings path (SpecQuery) *)

\* C12: the savings path validates no field.  With expenses or an income in
\* the profile it returns the savings strategy, whose emergency-fund target
\* is 6 x the sum of the expenses when there are any and 6 x 0.7 x income
\* otherwise (in thousandths of a dollar, compared times 10); with neither,
\* the handler fails and process_query returns the generic apology, not a
\* need-more-information message.
C12_SavingsValidatesNothing ==
    (QueryAnswered /\ last.intent = "savings") =>
        IF Len(LastProfile.expenses) > 0 \/ LastProfile.income # None
        THEN /\ last.handler = "return"
             /\ last.value.kind = "savings"
             /\ 10 * last.value.emergency_fund_target =
                    (IF Len(LastProfile.expenses) > 0
                     THEN 60 * Milli(DictSum(LastProfile.expenses))
                     ELSE 42 * Milli(LastProfile.income[1]))
        ELSE /\ last.handler = "raise"
             /\ last.value = ApologyMessage
             /\ last.value \notin {NeedIncomeForTaxes, NeedIncomeAndExpenses,
                                   NeedIncomeForInvesting}

\* C12 witness: a savings query on a profile with no income and no expenses
\* raised TypeError in the handler and was answered with the apology.
C12_Witness ==
    /\ QueryAnswered
    /\ last.intent = "savings"
    /\ LastProfile.income = None
    /\ LastProfile.expenses = EmptyDict
    /\ last.logged = "TypeError"
    /\ last.value = ApologyMessage

=============================================================================
